---- MODULE Spec2Model ----
(***************************************************************************)
(* Model of the post collection of backend_app.py: the in-memory list      *)
(* POSTS and the five request handlers that read and write it.             *)
(*                                                                         *)
(* Text is a sequence of code points, so that str.lower, str.strip, the    *)
(* substring test and the ordering of str are computed, not assumed.       *)
(* A request parameter is a record [kind, val]: kind "absent" (the key is  *)
(* not in the query string / JSON body), "str" (a text, val), or "other"   *)
(* (a JSON value that is not a text, as update_post's isinstance test      *)
(* distinguishes it).                                                      *)
(***************************************************************************)
EXTENDS Integers, Sequences, FiniteSets, TLC

VARIABLES POSTS, last, prev, deleted, requests

vars == <<POSTS, last, prev, deleted, requests>>

\* Number of requests served in a run.
MaxRequests == 3


----------------------------------------------------------------------------
\* Text literals (code points)

\* ""
Empty == <<>>
\* " "
Blank == <<32>>
\* "a"
Str_a == <<97>>
\* "A"
Str_A == <<65>>
\* "FLASK TIPS"
Str_FLASK_TIPS == <<70, 76, 65, 83, 75, 32, 84, 73, 80, 83>>
\* " A "
Str_A_padded == <<32, 65, 32>>
\* "Post"
Str_Post == <<80, 111, 115, 116>>
\* "title"
Str_title == <<116, 105, 116, 108, 101>>
\* "content"
Str_content == <<99, 111, 110, 116, 101, 110, 116>>
\* " Title "
Str_Title_padded == <<32, 84, 105, 116, 108, 101, 32>>
\* "date"
Str_date == <<100, 97, 116, 101>>
\* "asc"
Str_asc == <<97, 115, 99>>
\* "desc"
Str_desc == <<100, 101, 115, 99>>
\* " DESC "
Str_DESC_padded == <<32, 68, 69, 83, 67, 32>>
\* "up"
Str_up == <<117, 112>>

\* The seed collection, lines 11-16.
SeedPosts ==
  << [id |-> 1,
      \* "First Post"
      title |-> <<70, 105, 114, 115, 116, 32, 80, 111, 115, 116>>,
      \* "This is the first post."
      content |-> <<84, 104, 105, 115, 32, 105, 115, 32, 116, 104, 101, 32, 102,
                    105, 114, 115, 116, 32, 112, 111, 115, 116, 46>>],
     [id |-> 2,
      \* "Second Post"
      title |-> <<83, 101, 99, 111, 110, 100, 32, 80, 111, 115, 116>>,
      \* "This is the second post."
      content |-> <<84, 104, 105, 115, 32, 105, 115, 32, 116, 104, 101, 32, 115,
                    101, 99, 111, 110, 100, 32, 112, 111, 115, 116, 46>>],
     [id |-> 3,
      \* "Flask Tips"
      title |-> <<70, 108, 97, 115, 107, 32, 84, 105, 112, 115>>,
      \* "Using Flask to build APIs is fun."
      content |-> <<85, 115, 105, 110, 103, 32, 70, 108, 97, 115, 107, 32, 116,
                    111, 32, 98, 117, 105, 108, 100, 32, 65, 80, 73, 115, 32,
                    105, 115, 32, 102, 117, 110, 46>>],
     [id |-> 4,
      \* "Python Tricks"
      title |-> <<80, 121, 116, 104, 111, 110, 32, 84, 114, 105, 99, 107, 115>>,
      \* "List comprehensions and generators are powerful."
      content |-> <<76, 105, 115, 116, 32, 99, 111, 109, 112, 114, 101, 104, 101,
                    110, 115, 105, 111, 110, 115, 32, 97, 110, 100, 32, 103,
                    101, 110, 101, 114, 97, 116, 111, 114, 115, 32, 97, 114,
                    101, 32, 112, 111, 119, 101, 114, 102, 117, 108, 46>>] >>

----------------------------------------------------------------------------
\* Request parameters

Absent == [kind |-> "absent", val |-> <<>>]

Other == [kind |-> "other", val |-> <<>>]

Str(s) == [kind |-> "str", val |-> s]

\* dict.get(key, default) / request.args.get(key, default)
args_get(arg, default) == IF arg.kind = "str" THEN arg.val ELSE default

\* Python truthiness of a parameter that is None or a text.
truthy(arg) == arg.kind = "str" /\ arg.val # <<>>

----------------------------------------------------------------------------
\* Python built-ins on text

IsSpace(c) == c \in {9, 10, 11, 12, 13, 32}

LowerChar(c) == IF c >= 65 /\ c <= 90 THEN c + 32 ELSE c

\* str.lower()
lower(s) == [i \in 1..Len(s) |-> LowerChar(s[i])]

\* str.strip(): what lies between the first and the last character that is
\* not white space.
strip(s) ==
  LET inked == {i \in 1..Len(s) : ~IsSpace(s[i])}
  IN IF inked = {} THEN <<>>
     ELSE SubSeq(s, CHOOSE i \in inked : \A j \in inked : i <= j,
                    CHOOSE i \in inked : \A j \in inked : i >= j)

\* a < b on str: lexicographic on code points, a proper prefix is smaller.
RECURSIVE StrLessFrom(_, _, _)
StrLessFrom(a, b, i) ==
  IF i > Len(b) THEN FALSE
  ELSE IF i > Len(a) THEN TRUE
  ELSE IF a[i] # b[i] THEN a[i] < b[i]
  ELSE StrLessFrom(a, b, i + 1)

StrLess(a, b) == StrLessFrom(a, b, 1)

\* needle in hay
str_in(needle, hay) ==
  \E i \in 0..(Len(hay) - Len(needle)) :
    \A j \in 1..Len(needle) : hay[i + j] = needle[j]

RECURSIVE Reverse(_)
Reverse(s) == IF s = <<>> THEN <<>> ELSE Reverse(Tail(s)) \o <<Head(s)>>

RECURSIVE MaxId(_)
MaxId(posts) ==
  IF Len(posts) = 1 THEN posts[1].id
  ELSE LET m == MaxId(Tail(posts))
       IN IF posts[1].id > m THEN posts[1].id ELSE m

----------------------------------------------------------------------------
\* Helpers, lines 21-33

\* A handler's outcome: the HTTP status, the collection afterwards, the posts
\* of the JSON body (none for an error or a confirmation message) and the
\* names the error message lists.
Response(status, posts, body, message) ==
  [status |-> status, POSTS |-> posts, body |-> body, message |-> message]

\* The loop of get_post_index_by_id from position i (0-based) on.
RECURSIVE scan_from(_, _, _)
scan_from(posts, post_id, i) ==
  IF i >= Len(posts) THEN -1
  ELSE IF posts[i + 1].id = post_id THEN i
  ELSE scan_from(posts, post_id, i + 1)

get_post_index_by_id(posts, post_id) == scan_from(posts, post_id, 0)

\* next_id as a count of the stored posts.
next_id_by_len(posts) == Len(posts) + 1

next_id(posts) == IF posts = <<>> THEN 1 ELSE MaxId(posts) + 1

\* list.pop() without the index: the last element goes.
pop_last(posts, idx) == SubSeq(posts, 1, Len(posts) - 1)

\* list.pop(idx), idx 0-based: the list without that element.
pop(posts, idx) == SubSeq(posts, 1, idx) \o SubSeq(posts, idx + 2, Len(posts))

----------------------------------------------------------------------------
\* GET /api/posts, lines 39-70

\* post.get(sort) or ""
post_get(post, sort) ==
  IF sort = Str_title THEN post.title
  ELSE IF sort = Str_content THEN post.content
  ELSE Empty

\* The key without .lower().
key_fn_cased(post, sort) == post_get(post, sort)

key_fn(post, sort) == lower(post_get(post, sort))

\* One element put into a list already in key order, behind its equals.
RECURSIVE insert_by_key(_, _, _)
insert_by_key(done, post, sort) ==
  IF done = <<>> THEN <<post>>
  ELSE IF StrLess(key_fn(post, sort), key_fn(Head(done), sort))
       THEN <<post>> \o done
       ELSE <<Head(done)>> \o insert_by_key(Tail(done), post, sort)

RECURSIVE stable_sort(_, _)
stable_sort(posts, sort) ==
  IF posts = <<>> THEN <<>>
  ELSE insert_by_key(stable_sort(SubSeq(posts, 1, Len(posts) - 1), sort),
                     posts[Len(posts)], sort)

\* sorted that takes no notice of reverse.
sorted_ascending(posts, sort, reverse) == stable_sort(posts, sort)

\* sorted(POSTS, key=key_fn, reverse=reverse): a stable sort; with reverse
\* the list is reversed, sorted and reversed again, which keeps equal keys
\* in their original order.
sorted(posts, sort, reverse) ==
  IF reverse THEN Reverse(stable_sort(Reverse(posts), sort))
  ELSE stable_sort(posts, sort)

\* list_posts without the test of direction: anything but desc sorts upwards.
list_posts_any_direction(posts, sortArg, directionArg) ==
  LET sort == lower(strip(args_get(sortArg, Empty)))
      direction == lower(strip(args_get(directionArg, Str_asc)))
  IN IF sort = <<>> THEN Response(200, posts, posts, <<>>)
     ELSE IF sort \notin {Str_title, Str_content}
          THEN Response(400, posts, <<>>, <<"sort">>)
     ELSE Response(200, posts, sorted(posts, sort, direction = Str_desc), <<>>)

list_posts(posts, sortArg, directionArg) ==
  LET sort == lower(strip(args_get(sortArg, Empty)))
      direction == lower(strip(args_get(directionArg, Str_asc)))
  IN IF sort = <<>> THEN Response(200, posts, posts, <<>>)
     ELSE IF sort \notin {Str_title, Str_content}
          THEN Response(400, posts, <<>>, <<"sort">>)
     ELSE IF direction \notin {Str_asc, Str_desc}
          THEN Response(400, posts, <<>>, <<"direction">>)
     ELSE Response(200, posts, sorted(posts, sort, direction = Str_desc), <<>>)

----------------------------------------------------------------------------
\* POST /api/posts, lines 73-98

add_post(posts, title, content) ==
  LET missing == (IF ~truthy(title) THEN <<"title">> ELSE <<>>)
                 \o (IF ~truthy(content) THEN <<"content">> ELSE <<>>)
      new_post == [id |-> next_id(posts),
                   title |-> title.val, content |-> content.val]
  IN IF missing # <<>> THEN Response(400, posts, <<>>, missing)
     ELSE Response(201, Append(posts, new_post), <<new_post>>, <<>>)

----------------------------------------------------------------------------
\* DELETE /api/posts/<id>, lines 101-112

delete_post(posts, post_id) ==
  LET idx == get_post_index_by_id(posts, post_id)
  IN IF idx = -1 THEN Response(404, posts, <<>>, <<>>)
     ELSE Response(200, pop(posts, idx), <<>>, <<>>)

----------------------------------------------------------------------------
\* PUT /api/posts/<id>, lines 115-133

\* update_post that writes data.get("title", "") and data.get("content", "")
\* whether or not the body holds them.
update_post_overwriting(posts, post_id, title, content) ==
  LET idx == get_post_index_by_id(posts, post_id)
  IN IF idx = -1 THEN Response(404, posts, <<>>, <<>>)
     ELSE LET post == [posts[idx + 1] EXCEPT !.title = args_get(title, Empty),
                                             !.content = args_get(content, Empty)]
          IN Response(200, [posts EXCEPT ![idx + 1] = post], <<post>>, <<>>)

update_post(posts, post_id, title, content) ==
  LET idx == get_post_index_by_id(posts, post_id)
  IN IF idx = -1 THEN Response(404, posts, <<>>, <<>>)
     ELSE LET post == posts[idx + 1]
              post1 == IF title.kind = "str"
                       THEN [post EXCEPT !.title = title.val] ELSE post
              post2 == IF content.kind = "str"
                       THEN [post1 EXCEPT !.content = content.val] ELSE post1
          IN Response(200, [posts EXCEPT ![idx + 1] = post2], <<post2>>, <<>>)

----------------------------------------------------------------------------
\* GET /api/posts/search, lines 136-154

\* search_match without bool(query): an empty query is in every text.
search_match_unguarded(post, title_query, content_query) ==
  \/ str_in(title_query, lower(post.title))
  \/ str_in(content_query, lower(post.content))

search_match(post, title_query, content_query) ==
  LET title == lower(post.title)
      content == lower(post.content)
      match_title == title_query # <<>> /\ str_in(title_query, title)
      match_content == content_query # <<>> /\ str_in(content_query, content)
  IN match_title \/ match_content

RECURSIVE search_loop(_, _, _)
search_loop(posts, title_query, content_query) ==
  IF posts = <<>> THEN <<>>
  ELSE (IF search_match(Head(posts), title_query, content_query)
        THEN <<Head(posts)>> ELSE <<>>)
       \o search_loop(Tail(posts), title_query, content_query)

search_posts(posts, titleArg, contentArg) ==
  LET title_query == lower(strip(args_get(titleArg, Empty)))
      content_query == lower(strip(args_get(contentArg, Empty)))
  IN IF title_query = <<>> /\ content_query = <<>>
     THEN Response(200, posts, <<>>, <<>>)
     ELSE Response(200, posts,
                   search_loop(posts, title_query, content_query), <<>>)

----------------------------------------------------------------------------
\* Requests

\* title / content of a create body: absent, or a text.
CreateValues == {Absent, Str(Empty), Str(Blank), Str(Str_a)}

\* (title, content) of an update body: absent, not a text, or a text.
UpdateBodies ==
  { <<Absent, Absent>>, <<Other, Other>>,
    <<Str(Str_FLASK_TIPS), Absent>>, <<Str(Empty), Other>>,
    <<Absent, Str(Str_A)>>, <<Other, Str(Empty)>>,
    <<Str(Str_A), Str(Str_A)>> }

SortValues == {Absent, Str(Str_Title_padded), Str(Str_content), Str(Str_date)}

DirectionValues == {Absent, Str(Str_DESC_padded), Str(Str_up)}

TitleQueries == {Absent, Str(Blank), Str(Str_Post)}

ContentQueries == {Absent, Str(Str_A_padded), Str(Str_Post)}

\* Ids a request path can name: the seed's, the first one a create assigns,
\* and 0, which is never stored.
PostIds == 0..(Len(SeedPosts) + 1)

Request(op, id, a, b, r) ==
  [op |-> op, id |-> id, a |-> a, b |-> b,
   status |-> r.status, body |-> r.body, message |-> r.message]

Init ==
  /\ POSTS = SeedPosts
  /\ last = [op |-> "none", id |-> 0, a |-> Absent, b |-> Absent,
             status |-> 0, body |-> <<>>, message |-> <<>>]
  /\ prev = SeedPosts
  /\ deleted = {}
  /\ requests = 0

\* What every handler's step does besides answering: the collection is the
\* one the handler leaves, prev is the one it found.
Serve(op, id, a, b, r) ==
  /\ requests' = requests + 1
  /\ POSTS' = r.POSTS
  /\ last' = Request(op, id, a, b, r)
  /\ prev' = POSTS

ListPosts ==
  /\ requests < MaxRequests
  /\ \E sort \in SortValues, direction \in DirectionValues :
       \E r \in {list_posts(POSTS, sort, direction)} :
         /\ Serve("list", 0, sort, direction, r)
         /\ UNCHANGED deleted

AddPost ==
  /\ requests < MaxRequests
  /\ \E title \in CreateValues, content \in CreateValues :
       \E r \in {add_post(POSTS, title, content)} :
         /\ Serve("create", 0, title, content, r)
         /\ UNCHANGED deleted

DeletePost ==
  /\ requests < MaxRequests
  /\ \E post_id \in PostIds :
       \E r \in {delete_post(POSTS, post_id)} :
         /\ Serve("delete", post_id, Absent, Absent, r)
         /\ deleted' = IF r.status = 200 THEN deleted \cup {post_id} ELSE deleted

UpdatePost ==
  /\ requests < MaxRequests
  /\ \E post_id \in PostIds, data \in UpdateBodies :
       \E r \in {update_post(POSTS, post_id, data[1], data[2])} :
         /\ Serve("update", post_id, data[1], data[2], r)
         /\ UNCHANGED deleted

SearchPosts ==
  /\ requests < MaxRequests
  /\ \E title \in TitleQueries, content \in ContentQueries :
       \E r \in {search_posts(POSTS, title, content)} :
         /\ Serve("search", 0, title, content, r)
         /\ UNCHANGED deleted

Next == ListPosts \/ AddPost \/ DeletePost \/ UpdatePost \/ SearchPosts

Spec == Init /\ [][Next]_vars

----------------------------------------------------------------------------
\* Vocabulary of the properties

Ids(posts) == {posts[i].id : i \in DOMAIN posts}

WithoutId(posts, post_id) ==
  LET Keep(p) == p.id # post_id IN SelectSeq(posts, Keep)

\* Position of the post with this id.
PositionOf(posts, post_id) == CHOOSE i \in DOMAIN posts : posts[i].id = post_id

Created == last.op = "create" /\ last.status = 201

\* A text is blank when nothing is left of it after trimming.
IsBlank(arg) == arg.kind # "str" \/ strip(arg.val) = <<>>

\* The query parameters as the handlers normalise them.
NormSort == lower(strip(args_get(last.a, Empty)))

NormDirection == lower(strip(args_get(last.b, Str_asc)))

NormQuery(arg) == lower(strip(args_get(arg, Empty)))

Sorted == /\ last.op = "list" /\ last.status = 200
          /\ NormSort \in {Str_title, Str_content}

\* The lower-cased value of the field list was asked to sort by.
LowerKey(post) ==
  lower(IF NormSort = Str_title THEN post.title ELSE post.content)

HasTies == \E i, j \in DOMAIN POSTS : i < j /\ LowerKey(POSTS[i]) = LowerKey(POSTS[j])

Occurs(needle, hay) ==
  \E i \in 1..(Len(hay) - Len(needle) + 1) :
    SubSeq(hay, i, i + Len(needle) - 1) = needle

----------------------------------------------------------------------------
\* C1: a successful create never returns an id that a post deleted earlier
\* in the run held.
C1_NoIdReuse == Created => last.body[1].id \notin deleted

\* C2: the ids of the collection are pairwise distinct, and a successful
\* create appends exactly one post, with the given title and content and an
\* id no stored post had, which list without sort shows last.
C2_CreateAppendsFresh ==
  /\ \A i, j \in DOMAIN POSTS : POSTS[i].id = POSTS[j].id => i = j
  /\ Created =>
       LET new == POSTS[Len(POSTS)]
           listed == list_posts(POSTS, Absent, Absent).body
       IN /\ POSTS = Append(prev, new)
          /\ new.title = last.a.val /\ new.content = last.b.val
          /\ new.id \notin Ids(prev)
          /\ last.body = <<new>>
          /\ listed[Len(listed)] = new

C2_Witness == Created /\ deleted # {} /\ Len(POSTS) = Len(prev) + 1

\* C3: create with a title or content that is missing or blank answers 400,
\* names every such field and leaves the collection as it was.
C3_BlankRejected ==
  last.op = "create" =>
    LET offending == (IF IsBlank(last.a) THEN <<"title">> ELSE <<>>)
                     \o (IF IsBlank(last.b) THEN <<"content">> ELSE <<>>)
    IN offending # <<>> =>
         last.status = 400 /\ last.message = offending /\ POSTS = prev

\* C4: every stored post has a non-empty title and a non-empty content, and
\* an update with an empty text leaves that field as it was.
C4_FieldsNonEmpty ==
  /\ \A i \in DOMAIN POSTS : POSTS[i].title # <<>> /\ POSTS[i].content # <<>>
  /\ (last.op = "update" /\ last.status = 200) =>
       LET i == PositionOf(prev, last.id)
       IN /\ last.a = Str(Empty) => POSTS[i].title = prev[i].title
          /\ last.b = Str(Empty) => POSTS[i].content = prev[i].content

\* C5: update of a stored id keeps the length, the order, every id, every
\* other post and every field of the post that the body does not give as a
\* text; update of an unknown id answers 404 and changes nothing.
C5_UpdateFrame ==
  last.op = "update" =>
    IF last.id \notin Ids(prev)
    THEN last.status = 404 /\ POSTS = prev
    ELSE /\ last.status = 200
         /\ Len(POSTS) = Len(prev)
         /\ \A i \in DOMAIN prev :
              /\ POSTS[i].id = prev[i].id
              /\ prev[i].id # last.id => POSTS[i] = prev[i]
              /\ last.a.kind # "str" => POSTS[i].title = prev[i].title
              /\ last.b.kind # "str" => POSTS[i].content = prev[i].content

C5_Witness ==
  /\ last.op = "update" /\ last.status = 200
  /\ last.a.kind = "str" /\ last.b.kind # "str"
  /\ POSTS # prev

\* C6: delete answers 404 and changes nothing exactly when no stored post
\* has the id; otherwise the collection is the previous one without that
\* post, the others in their order, one shorter.
C6_DeleteRemovesOne ==
  last.op = "delete" =>
    IF last.id \notin Ids(prev)
    THEN last.status = 404 /\ POSTS = prev
    ELSE /\ last.status = 200
         /\ POSTS = WithoutId(prev, last.id)
         /\ Len(POSTS) = Len(prev) - 1

C6_Witness ==
  /\ last.op = "delete" /\ last.status = 200
  /\ prev[1].id # last.id /\ prev[Len(prev)].id # last.id

\* C7 as stated: list with a direction that is given and is not asc or desc
\* answers 400, whatever the sort field, also when there is none.
C7_BadDirectionAlwaysRejected ==
  (last.op = "list" /\ last.b.kind = "str"
     /\ NormDirection \notin {Str_asc, Str_desc})
  => last.status = 400

\* C7 amended: with a sort field that is not blank, a direction that is not
\* asc or desc after trimming and lower-casing answers 400; with no sort
\* field the direction is not looked at and list returns the collection.
C7_BadDirectionRejectedWhenSorting ==
  last.op = "list" =>
    /\ (NormSort # <<>> /\ NormDirection \notin {Str_asc, Str_desc})
         => last.status = 400 /\ last.body = <<>>
    /\ NormSort = <<>> => last.status = 200 /\ last.body = POSTS

C7_Witness ==
  /\ last.op = "list" /\ NormSort = Str_title
  /\ last.b = Str(Str_up) /\ last.status = 400

C9_DescReversesAsc ==
  (Sorted /\ NormDirection = Str_desc)
  => last.body = Reverse(list_posts(POSTS, last.a, Str(Str_asc)).body)

\* C9 amended: the result of desc is the reversal of the result of asc when
\* the lower-cased keys are pairwise distinct; in general two posts with
\* different keys come in the opposite order of asc and two posts with equal
\* keys in the same order as in asc.
C9_DescReversesAscUpToTies ==
  (Sorted /\ NormDirection = Str_desc) =>
    LET asc == list_posts(POSTS, last.a, Str(Str_asc)).body
    IN /\ Len(asc) = Len(last.body)
       /\ ~HasTies => last.body = Reverse(asc)
       /\ \A i, j \in DOMAIN last.body :
            i < j =>
              IF LowerKey(last.body[i]) = LowerKey(last.body[j])
              THEN PositionOf(asc, last.body[i].id) < PositionOf(asc, last.body[j].id)
              ELSE PositionOf(asc, last.body[i].id) > PositionOf(asc, last.body[j].id)

C9_Witness ==
  /\ Sorted /\ NormDirection = Str_desc /\ HasTies
  /\ last.body # Reverse(list_posts(POSTS, last.a, Str(Str_asc)).body)
  /\ last.body # list_posts(POSTS, last.a, Str(Str_asc)).body

====
